---- MODULE Spec2Model ----
(***************************************************************************)
(* A model of light_group_mixer.py, the callbacks of the LightGroupMixer   *)
(* gizmo: update_light_group_mixer (synchronise grading nodes and tabs     *)
(* with the upstream lightgroup layers), solo_lightgroup and               *)
(* unsolo_lightgroup (the solo buttons).                                   *)
(*                                                                         *)
(* Python strings are sequences of one-character strings, so startswith,   *)
(* endswith, `in', split and join are computed character by character.     *)
(* The host's objects are modelled by what the module reads and writes of  *)
(* them: the mixer's user knobs (an ordered list), the LightGroupGrade     *)
(* nodes inside the group, the input of Output1 and the value of the       *)
(* 'Showing' knob.                                                         *)
(***************************************************************************)
EXTENDS Integers, Sequences, FiniteSets, TLC

VARIABLES
    knobs,      \* the mixer's knobs, in the order addKnob added them
    nodes,      \* the LightGroupGrade nodes in the group: id -> node
    Output1,    \* what input 0 of the node "Output1" is connected to
    Showing,    \* the value of the mixer's "Showing" knob
    upstream,   \* the layers of the upstream image at the last update
    op,         \* the callback that ran last
    error       \* the exception that callback ended with ("" for none)

vars == <<knobs, nodes, Output1, Showing, upstream, op, error>>

----------------------------------------------------------------------------
(* Bounds *)

\* update_light_group_mixer is not run when it would leave more grading
\* nodes than this in the group.
MaxNodes == 3

----------------------------------------------------------------------------
(* Strings *)

LIGHTGROUP_PREFIX == <<"L", "G", "_">>
LIGHTGROUP_GRADE_GIZMO_NAME == "LightGroupGrade"

ALL_LIGHTGROUPS ==
    <<"A", "l", "l", " ", "l", "i", "g", "h", "t", "g", "r", "o", "u", "p", "s">>
NOTHING == <<"N", "o", "t", "h", "i", "n", "g">>

TAB_BEGIN == <<"_", "t", "a", "b", "_", "b", "e", "g", "i", "n">>
TAB_END == <<"_", "t", "a", "b", "_", "e", "n", "d">>
TAB_SEP == <<"_", "t", "a", "b", "_">>
SOLO_SUFFIX == <<"_", "s", "o", "l", "o">>
DOT == <<".">>
UNDERSCORE == <<"_">>
SPACE == <<" ">>

EXPOSURE == <<"e", "x", "p", "o", "s", "u", "r", "e">>
MULTIPLY == <<"m", "u", "l", "t", "i", "p", "l", "y">>
SATURATION == <<"s", "a", "t", "u", "r", "a", "t", "i", "o", "n">>

\* str.startswith
StartsWith(s, p) == Len(s) >= Len(p) /\ SubSeq(s, 1, Len(p)) = p

\* str.endswith
EndsWith(s, p) == Len(s) >= Len(p) /\ SubSeq(s, Len(s) - Len(p) + 1, Len(s)) = p

\* the positions at which sub occurs in s
Occurrences(s, sub) ==
    {i \in 1..(Len(s) - Len(sub) + 1) : SubSeq(s, i, i + Len(sub) - 1) = sub}

\* `sub in s' on strings
Contains(s, sub) ==
    \E i \in 1..(Len(s) - Len(sub) + 1) : SubSeq(s, i, i + Len(sub) - 1) = sub

\* str.find, 1-based, 0 when sub does not occur
Find(s, sub) ==
    LET at == Occurrences(s, sub)
    IN  IF at = {} THEN 0 ELSE CHOOSE i \in at : \A j \in at : i <= j

\* str.split(sep)
RECURSIVE Split(_, _)
Split(s, sep) ==
    LET i == Find(s, sep)
    IN  IF i = 0 THEN <<s>>
        ELSE <<SubSeq(s, 1, i - 1)>> \o Split(SubSeq(s, i + Len(sep), Len(s)), sep)

\* the length of the longest prefix of s without a space
RECURSIVE WordLen(_)
WordLen(s) ==
    IF s = <<>> \/ Head(s) = " " THEN 0 ELSE 1 + WordLen(Tail(s))

\* str.split() with no argument: the words between runs of whitespace
RECURSIVE SplitWs(_)
SplitWs(s) ==
    IF s = <<>> THEN <<>>
    ELSE IF Head(s) = " " THEN SplitWs(Tail(s))
    ELSE LET n == WordLen(s)
         IN  <<SubSeq(s, 1, n)>> \o SplitWs(SubSeq(s, n + 1, Len(s)))

\* " ".join(words)
RECURSIVE Join(_)
Join(words) ==
    IF words = <<>> THEN <<>>
    ELSE IF Len(words) = 1 THEN words[1]
    ELSE words[1] \o SPACE \o Join(Tail(words))

\* list.remove(x) for an x that is in the list: the first occurrence goes
RECURSIVE ListRemove(_, _)
ListRemove(list, x) ==
    IF list = <<>> THEN <<>>
    ELSE IF Head(list) = x THEN Tail(list)
    ELSE <<Head(list)>> \o ListRemove(Tail(list), x)

Range(seq) == {seq[i] : i \in DOMAIN seq}

\* the orders in which a set can be listed
RECURSIVE Orderings(_)
Orderings(S) ==
    IF S = {} THEN {<<>>}
    ELSE UNION {{<<x>> \o rest : rest \in Orderings(S \ {x})} : x \in S}

----------------------------------------------------------------------------
(* The upstream image *)

RGBA == <<"r", "g", "b", "a">>
LG_key == <<"L", "G", "_", "k", "e", "y">>
LG_keyfill == <<"L", "G", "_", "k", "e", "y", "f", "i", "l", "l">>
LG_aLG_b == <<"L", "G", "_", "a", "L", "G", "_", "b">>
RED == <<"r", "e", "d">>
GREEN == <<"g", "r", "e", "e", "n">>

\* The channels an upstream image may carry: a layer without the prefix, a
\* lightgroup with two channels, a lightgroup whose name extends another's,
\* and a lightgroup whose name holds the prefix twice.
ChannelUniverse ==
    { RGBA \o DOT \o RED,
      LG_key \o DOT \o RED,
      LG_key \o DOT \o GREEN,
      LG_keyfill \o DOT \o RED,
      LG_aLG_b \o DOT \o RED }

----------------------------------------------------------------------------
(* The host's objects *)

\* nuke.toNode("Input1"), and the None of an unconnected input; the
\* LightGroupGrade nodes are numbered from 1.
Input1 == 0
None == -1
NodeIds == 1..MaxNodes

NoCommand == [fn |-> "", arg |-> <<>>]

Tab_Knob(name, label, flag) ==
    [name |-> name, class |-> "Tab_Knob", label |-> label,
     command |-> NoCommand, link |-> <<>>, flag |-> flag]

PyScript_Knob(name, label, command) ==
    [name |-> name, class |-> "PyScript_Knob", label |-> label,
     command |-> command, link |-> <<>>, flag |-> ""]

\* Link_Knob(knob) followed by setLink, setName and setLabel
Link_Knob(name, label, link) ==
    [name |-> name, class |-> "Link_Knob", label |-> label,
     command |-> NoCommand, link |-> link, flag |-> ""]

\* the "Showing" knob the gizmo is built with; its value is the variable
ShowingKnob ==
    [name |-> <<"S", "h", "o", "w", "i", "n", "g">>, class |-> "String_Knob",
     label |-> <<"S", "h", "o", "w", "i", "n", "g">>,
     command |-> NoCommand, link |-> <<>>, flag |-> ""]

\* the text of a solo button's script, as the call it makes
SoloCommand(light_group_name) ==
    [fn |-> "solo_lightgroup", arg |-> light_group_name]
UnsoloCommand(light_group_name) ==
    [fn |-> "unsolo_lightgroup", arg |-> light_group_name]

\* node.knobs(): a dict keyed by knob name
KnobNames(ks) == {ks[i].name : i \in DOMAIN ks}

\* the keys of node.knobs() as a list: each name once
RECURSIVE DictKeys(_)
DictKeys(ks) ==
    IF ks = <<>> THEN <<>>
    ELSE LET rest == DictKeys(SubSeq(ks, 1, Len(ks) - 1))
             name == ks[Len(ks)].name
         IN  IF \E i \in DOMAIN rest : rest[i] = name THEN rest
             ELSE Append(rest, name)

\* node[name]: the index of the knob of that name, 0 when there is none
\* (the host raises NameError)
KnobIndex(ks, name) ==
    LET at == {i \in DOMAIN ks : ks[i].name = name}
    IN  IF at = {} THEN 0 ELSE CHOOSE i \in at : \A j \in at : i <= j

\* node.removeKnob(node.knobs()[name])
removeKnob(ks, name) ==
    LET at == {i \in DOMAIN ks : ks[i].name = name}
        last == CHOOSE i \in at : \A j \in at : j <= i
    IN  SubSeq(ks, 1, last - 1) \o SubSeq(ks, last + 1, Len(ks))

DIGITS == <<"1", "2", "3", "4", "5", "6", "7", "8", "9">>

NodeNames(ns) == {ns[i].name : i \in DOMAIN ns}

\* node.setName(name): the host keeps node names unique by appending a
\* number to a name that is taken
Uncollide(ns, name) ==
    IF name \notin NodeNames(ns) THEN name
    ELSE LET free == {k \in DOMAIN DIGITS : (name \o <<DIGITS[k]>>) \notin NodeNames(ns)}
         IN  name \o <<DIGITS[CHOOSE k \in free : \A j \in free : k <= j]>>

\* node.Class() of what an input is connected to
Class(ns, ref) ==
    IF ref \in DOMAIN ns THEN LIGHTGROUP_GRADE_GIZMO_NAME
    ELSE IF ref = Input1 THEN "Input"
    ELSE "None"

\* nuke.delete(node): the node goes, and what was connected to it is
\* connected to its input
nukeDelete(m, id) ==
    LET to == m.nodes[id].input
    IN  [m EXCEPT
            !.nodes = [i \in DOMAIN m.nodes \ {id} |->
                        IF m.nodes[i].input = id
                        THEN [m.nodes[i] EXCEPT !.input = to]
                        ELSE m.nodes[i]],
            !.out = IF m.out = id THEN to ELSE m.out]

----------------------------------------------------------------------------
(* light_group_mixer.py.  The operators below work on a record m of the    *)
(* mixer: m.knobs, m.nodes, m.out (the input of Output1), m.showing and     *)
(* m.err, the exception that ended the callback ("" while it runs).        *)

\* _get_all_layers: list(set(c.split('.')[0] for c in channels)); the order
\* of a list made from a set is not fixed, so every order is a result.
\* (The mixer is a node, so channels() exists and the AttributeError branch
\* is not taken.)
_get_all_layers(chs) == Orderings({Split(c, DOT)[1] : c \in chs})

\* the layers of an image with the channels chs
Layers(chs) == {Split(c, DOT)[1] : c \in chs}

\* _get_next_node_to_connect_to without the look at Output1: every run
\* starts the chain again at Input1
_get_next_node_to_connect_to_Input1(m) == Input1

\* _get_next_node_to_connect_to: the node feeding Output1 when that is a
\* LightGroupGrade; Input1 otherwise, also when Output1 has no input
\* (None.Class() raises the AttributeError the function catches)
_get_next_node_to_connect_to(m) ==
    IF m.out = None THEN Input1
    ELSE IF Class(m.nodes, m.out) = LIGHTGROUP_GRADE_GIZMO_NAME THEN m.out
    ELSE Input1

\* _get_lightgroups: the loop over layers, one layer per unfolding
RECURSIVE _get_lightgroups_loop(_, _, _, _)
_get_lightgroups_loop(all_knobs, layers, all_lightgroups, lightgroups_to_build) ==
    IF layers = <<>>
    THEN [all |-> all_lightgroups, build |-> lightgroups_to_build]
    ELSE LET layer == Head(layers)
         IN  IF ~StartsWith(layer, LIGHTGROUP_PREFIX)
             THEN _get_lightgroups_loop(all_knobs, Tail(layers),
                                        all_lightgroups, lightgroups_to_build)
             ELSE IF (layer \o TAB_BEGIN) \in all_knobs
             THEN _get_lightgroups_loop(all_knobs, Tail(layers),
                                        Append(all_lightgroups, layer),
                                        lightgroups_to_build)
             ELSE _get_lightgroups_loop(all_knobs, Tail(layers),
                                        Append(all_lightgroups, layer),
                                        Append(lightgroups_to_build, layer))

\* _get_lightgroups looking the layer itself up among the knobs
\* (`if layer in all_knobs'), so that no layer is ever found built
_get_lightgroups_NoSuffix(ks, layers) ==
    _get_lightgroups_loop({n \o TAB_BEGIN : n \in KnobNames(ks)}, layers, <<>>, <<>>)

_get_lightgroups(ks, layers) ==
    _get_lightgroups_loop(KnobNames(ks), layers, <<>>, <<>>)

\* the id the host gives the next node created
NewNodeId(ns) == CHOOSE i \in NodeIds \ DOMAIN ns : \A j \in NodeIds \ DOMAIN ns : i <= j

\* _create_grader_node: a new LightGroupGrade (enabled, as nodes are
\* created), connected to to_connect_to and named after the lightgroup
_create_grader_node(m, to_connect_to, lightgroup) ==
    LET id == NewNodeId(m.nodes)
        grader_node == [name |-> Uncollide(m.nodes, Split(lightgroup, DOT)[1]),
                        lightgroup |-> Split(lightgroup, DOT)[1],
                        input |-> to_connect_to,
                        disable |-> FALSE]
    IN  [m EXCEPT !.nodes = (id :> grader_node) @@ m.nodes]

\* _link_lightgroupgrade_knobs: a link knob on the mixer for each of the
\* grader's exposure, multiply and saturation knobs, in the order the
\* grader has them
_link_lightgroupgrade_knobs(m, grader_node) ==
    LET name == m.nodes[grader_node].name
        link(knob) == Link_Knob(name \o UNDERSCORE \o knob, knob, name \o DOT \o knob)
    IN  [m EXCEPT !.knobs = @ \o <<link(EXPOSURE), link(MULTIPLY), link(SATURATION)>>]

\* _create_menu_tab
_create_menu_tab(m, lightgroup, grader_node) ==
    LET light_group_name == Split(Split(lightgroup, LIGHTGROUP_PREFIX)[2], DOT)[1]
        lightgroup_tab_begin ==
            Tab_Knob(LIGHTGROUP_PREFIX \o light_group_name \o TAB_BEGIN,
                     light_group_name, "TABBEGINCLOSEDGROUP")
        solo_button ==
            PyScript_Knob(LIGHTGROUP_PREFIX \o light_group_name \o SOLO_SUFFIX,
                          "Solo", SoloCommand(LIGHTGROUP_PREFIX \o light_group_name))
        lightgroup_tab_end ==
            Tab_Knob(LIGHTGROUP_PREFIX \o light_group_name \o TAB_END,
                     light_group_name, "TABENDGROUP")
        m1 == [m EXCEPT !.knobs = @ \o <<lightgroup_tab_begin, solo_button>>]
        m2 == _link_lightgroupgrade_knobs(m1, grader_node)
    IN  [m2 EXCEPT !.knobs = Append(@, lightgroup_tab_end)]

\* _add_lightgroups: the loop, then Output1 is connected to the last node
RECURSIVE _add_lightgroups(_, _, _)
_add_lightgroups(m, lightgroups_to_build, next_node_to_connect_to) ==
    IF lightgroups_to_build = <<>>
    THEN [m EXCEPT !.out = next_node_to_connect_to]
    ELSE LET lightgroup == Head(lightgroups_to_build)
             grader_node == NewNodeId(m.nodes)
             m1 == _create_grader_node(m, next_node_to_connect_to, lightgroup)
             m2 == _create_menu_tab(m1, lightgroup, grader_node)
         IN  _add_lightgroups(m2, Tail(lightgroups_to_build), grader_node)

\* _get_old_unused_lightgroups: the loop over the names of the knobs; r is
\* [m, remove], the mixer and lightgroups_to_remove so far
RECURSIVE _get_old_unused_lightgroups_loop(_, _, _)
_get_old_unused_lightgroups_loop(r, names, all_lightgroups) ==
    IF names = <<>> THEN r
    ELSE LET knob == Head(names)
             delete == \A i \in DOMAIN all_lightgroups :
                          ~StartsWith(knob, all_lightgroups[i])
             next ==
                IF ~StartsWith(knob, LIGHTGROUP_PREFIX) \/ ~delete THEN r
                ELSE [m |-> [r.m EXCEPT !.knobs = removeKnob(@, knob)],
                      remove |-> IF EndsWith(knob, TAB_END)
                                 THEN Append(r.remove, Split(knob, TAB_SEP)[1])
                                 ELSE r.remove]
         IN  _get_old_unused_lightgroups_loop(next, Tail(names), all_lightgroups)

_get_old_unused_lightgroups(m, all_lightgroups) ==
    _get_old_unused_lightgroups_loop([m |-> m, remove |-> <<>>],
                                     DictKeys(m.knobs), all_lightgroups)

\* _remove_lightgroupgrade_nodes: the loop over the nodes of the group
RECURSIVE _remove_lightgroupgrade_nodes_loop(_, _, _)
_remove_lightgroupgrade_nodes_loop(m, ids, lightgroups_to_remove) ==
    IF ids = {} THEN m
    ELSE LET node == CHOOSE i \in ids : \A j \in ids : i <= j
             m1 == IF m.nodes[node].name \in Range(lightgroups_to_remove)
                   THEN nukeDelete(m, node)
                   ELSE m
         IN  _remove_lightgroupgrade_nodes_loop(m1, ids \ {node}, lightgroups_to_remove)

_remove_lightgroupgrade_nodes(m, lightgroups_to_remove) ==
    _remove_lightgroupgrade_nodes_loop(m, DOMAIN m.nodes, lightgroups_to_remove)

\* _set_solos: a node is enabled when everything is shown or when its name
\* occurs in the text of "Showing"
_set_solos(m) ==
    [m EXCEPT !.nodes =
        [i \in DOMAIN m.nodes |->
            [m.nodes[i] EXCEPT !.disable =
                IF m.showing = ALL_LIGHTGROUPS THEN FALSE
                ELSE IF Contains(m.showing, m.nodes[i].name) THEN FALSE
                ELSE TRUE]]]

\* the two statements on the solo button, then _set_solos; node[...] raises
\* NameError when the mixer has no such knob, and the callback ends there
SetButton(m, light_group_name, command, label) ==
    LET k == KnobIndex(m.knobs, light_group_name \o SOLO_SUFFIX)
    IN  IF k = 0 THEN [m EXCEPT !.err = "NameError"]
        ELSE _set_solos([m EXCEPT !.knobs[k].command = command,
                                  !.knobs[k].label = label])

\* solo_lightgroup
solo_lightgroup(m, light_group_name) ==
    LET m1 == IF m.showing = ALL_LIGHTGROUPS \/ m.showing = NOTHING
              THEN [m EXCEPT !.showing = light_group_name]
              ELSE [m EXCEPT !.showing = @ \o SPACE \o light_group_name]
    IN  SetButton(m1, light_group_name, UnsoloCommand(light_group_name), "Unsolo")

\* unsolo_lightgroup; list.remove raises ValueError for a name that is not
\* in the list
unsolo_lightgroup(m, light_group_name) ==
    LET words == SplitWs(m.showing)
        solo_light_groups == ListRemove(words, light_group_name)
        m1 == IF Len(solo_light_groups) # 0
              THEN [m EXCEPT !.showing = Join(solo_light_groups)]
              ELSE [m EXCEPT !.showing = ALL_LIGHTGROUPS]
    IN  IF light_group_name \notin Range(words) THEN [m EXCEPT !.err = "ValueError"]
        ELSE SetButton(m1, light_group_name, SoloCommand(light_group_name), "Solo")

\* reset_solos: the loop over the soloed lightgroups; an exception in
\* unsolo_lightgroup ends it
RECURSIVE reset_solos_loop(_, _)
reset_solos_loop(m, solo_light_groups) ==
    IF solo_light_groups = <<>> \/ m.err # "" THEN m
    ELSE reset_solos_loop(unsolo_lightgroup(m, Head(solo_light_groups)),
                          Tail(solo_light_groups))

reset_solos(m) ==
    IF m.showing = ALL_LIGHTGROUPS THEN m
    ELSE IF m.showing = NOTHING THEN [m EXCEPT !.showing = ALL_LIGHTGROUPS]
    ELSE reset_solos_loop(m, SplitWs(m.showing))

\* update_light_group_mixer, for one order of the list of layers
update_light_group_mixer(m, layers) ==
    LET got == _get_lightgroups(m.knobs, layers)
        next_node_to_connect_to == _get_next_node_to_connect_to(m)
        m1 == _add_lightgroups(m, got.build, next_node_to_connect_to)
        old == _get_old_unused_lightgroups(m1, got.all)
        m2 == _remove_lightgroupgrade_nodes(old.m, old.remove)
    IN  reset_solos(m2)

----------------------------------------------------------------------------
(* The state machine *)

\* the mixer as the callbacks find it
Mixer ==
    [knobs |-> knobs, nodes |-> nodes, out |-> Output1, showing |-> Showing,
     err |-> ""]

\* the callback leaves the mixer as m
Leaves(m) ==
    /\ knobs' = m.knobs
    /\ nodes' = m.nodes
    /\ Output1' = m.out
    /\ Showing' = m.showing
    /\ error' = m.err

\* The gizmo as it is created: no lightgroup yet, Output1 connected to
\* Input1 or not connected, "Showing" at one of the two values the code
\* treats as no selection.
Init ==
    /\ knobs = <<ShowingKnob>>
    /\ nodes = <<>>
    /\ Output1 \in {Input1, None}
    /\ Showing \in {ALL_LIGHTGROUPS, NOTHING}
    /\ upstream = {}
    /\ op = "init"
    /\ error = ""

\* the number of nodes the update would create
ToBuild(chs) ==
    Cardinality({l \in Layers(chs) :
                    /\ StartsWith(l, LIGHTGROUP_PREFIX)
                    /\ (l \o TAB_BEGIN) \notin KnobNames(knobs)})

\* The host runs update_light_group_mixer on the mixer, whose input carries
\* the channels chs.
Update ==
    \E chs \in SUBSET ChannelUniverse :
        /\ Cardinality(DOMAIN nodes) + ToBuild(chs) <= MaxNodes
        /\ \E layers \in _get_all_layers(chs) :
              \E m \in {update_light_group_mixer(Mixer, layers)} : Leaves(m)
        /\ upstream' = Layers(chs)
        /\ op' = "update_light_group_mixer"

\* The user presses a solo button: the host runs the button's script.
Solo ==
    \E k \in DOMAIN knobs :
        /\ knobs[k].command.fn = "solo_lightgroup"
        /\ \E m \in {solo_lightgroup(Mixer, knobs[k].command.arg)} : Leaves(m)
        /\ op' = "solo_lightgroup"
        /\ UNCHANGED upstream

Unsolo ==
    \E k \in DOMAIN knobs :
        /\ knobs[k].command.fn = "unsolo_lightgroup"
        /\ \E m \in {unsolo_lightgroup(Mixer, knobs[k].command.arg)} : Leaves(m)
        /\ op' = "unsolo_lightgroup"
        /\ UNCHANGED upstream

Next == Update \/ Solo \/ Unsolo

Spec == Init /\ [][Next]_vars

----------------------------------------------------------------------------
(* What the claims speak of *)

\* the layers that are lightgroups
LightGroups(ls) == {l \in ls : StartsWith(l, LIGHTGROUP_PREFIX)}

\* s without its last n characters
DropLast(s, n) == SubSeq(s, 1, Len(s) - n)

\* the lightgroups that have a tab: a <LG>_tab_begin and <LG>_tab_end pair
TabbedLightGroups ==
    {DropLast(n, Len(TAB_BEGIN)) : n \in {k \in KnobNames(knobs) : EndsWith(k, TAB_BEGIN)}}
    \cap
    {DropLast(n, Len(TAB_END)) : n \in {k \in KnobNames(knobs) : EndsWith(k, TAB_END)}}

\* the names a lightgroup's knobs have on the mixer
KnobNamesOf(lg) ==
    {lg \o suffix : suffix \in {TAB_BEGIN, TAB_END, SOLO_SUFFIX,
                                UNDERSCORE \o EXPOSURE, UNDERSCORE \o MULTIPLY,
                                UNDERSCORE \o SATURATION}}

\* the solo buttons
SoloButtons == {k \in DOMAIN knobs : knobs[k].class = "PyScript_Knob"}

\* the grading nodes met by following input 0 from ref, at most fuel of them
RECURSIVE Walk(_, _, _)
Walk(ns, ref, fuel) ==
    IF fuel = 0 \/ ref \notin DOMAIN ns THEN <<>>
    ELSE <<ref>> \o Walk(ns, ns[ref].input, fuel - 1)

\* the chain below Output1, and what it ends at
Chain(ns, out) == Walk(ns, out, Cardinality(DOMAIN ns) + 1)
ChainEnd(ns, out) ==
    LET w == Chain(ns, out)
    IN  IF w = <<>> THEN out ELSE ns[w[Len(w)]].input

\* every grading node is met exactly once from Output1, and the chain ends
\* at Input1
LinearChain(ns, out) ==
    /\ Len(Chain(ns, out)) = Cardinality(DOMAIN ns)
    /\ Range(Chain(ns, out)) = DOMAIN ns
    /\ ChainEnd(ns, out) = Input1

\* the same, or the group as it is created, with Output1 not yet connected
ChainOrFresh(ns, out) ==
    LinearChain(ns, out) \/ (DOMAIN ns = {} /\ out = None)

----------------------------------------------------------------------------
(* The claims *)

\* C1: after update_light_group_mixer the lightgroups with a tab and the
\* names of the grading nodes are both exactly the upstream layers that
\* start with 'LG_', and no knob is left for a lightgroup that is no longer
\* upstream.
C1_Synchronised ==
    op = "update_light_group_mixer" =>
        /\ TabbedLightGroups = LightGroups(upstream)
        /\ NodeNames(nodes) = LightGroups(upstream)
        /\ \A n \in KnobNames(knobs) :
              StartsWith(n, LIGHTGROUP_PREFIX) =>
                  \E lg \in LightGroups(upstream) : n \in KnobNamesOf(lg)

\* C2: after solo_lightgroup or unsolo_lightgroup a grading node is enabled
\* exactly when "Showing" is 'All lightgroups' or the node's name is one of
\* the names in "Showing".
C2_EnabledIffSoloed ==
    op \in {"solo_lightgroup", "unsolo_lightgroup"} =>
        \A i \in DOMAIN nodes :
            ~nodes[i].disable <=>
                \/ Showing = ALL_LIGHTGROUPS
                \/ nodes[i].name \in Range(SplitWs(Showing))

\* C3: for every list of layers _get_all_layers can return and the knobs of
\* the mixer, the layers are the distinct prefixes before the first '.' of
\* the channels, all_lightgroups is exactly the layers that start with
\* 'LG_', and lightgroups_to_build is exactly those of them that have no
\* '<layer>_tab_begin' knob; no lightgroup is listed twice.
C3_GetLightgroups ==
    \A chs \in SUBSET ChannelUniverse :
        \A layers \in _get_all_layers(chs) :
            LET got == _get_lightgroups(knobs, layers)
                IsLightGroup(l) == StartsWith(l, LIGHTGROUP_PREFIX)
                NotBuilt(l) == (l \o TAB_BEGIN) \notin KnobNames(knobs)
            IN  /\ Range(layers) = {SubSeq(c, 1, Find(c, DOT) - 1) : c \in chs}
                /\ Cardinality(Range(layers)) = Len(layers)
                /\ got.all = SelectSeq(layers, IsLightGroup)
                /\ got.build = SelectSeq(got.all, NotBuilt)
                /\ Cardinality(Range(got.all)) = Len(got.all)
                /\ Cardinality(Range(got.build)) = Len(got.build)

\* C3, the case: an update has built tabs, and for some upstream image with
\* a layer that is no lightgroup and a lightgroup with two channels, some
\* lightgroups are built already and some are still to build.
C3_Witness ==
    /\ op = "update_light_group_mixer"
    /\ TabbedLightGroups # {}
    /\ \E chs \in SUBSET ChannelUniverse :
          \E layers \in _get_all_layers(chs) :
              LET got == _get_lightgroups(knobs, layers)
              IN  /\ Len(layers) < Cardinality(chs)
                  /\ Len(got.all) < Len(layers)
                  /\ got.build # <<>>
                  /\ Len(got.build) < Len(got.all)

\* C4: update_light_group_mixer run again for the same upstream layers
\* creates no grading node and no knob and removes none.
C4_Idempotent ==
    [][(op' = "update_light_group_mixer" /\ upstream' = upstream) =>
          /\ DOMAIN nodes' = DOMAIN nodes
          /\ \A i \in DOMAIN nodes : nodes'[i].name = nodes[i].name
          /\ [k \in DOMAIN knobs' |-> knobs'[k].name] = [k \in DOMAIN knobs |-> knobs[k].name]
      ]_vars

\* C5: after update_light_group_mixer "Showing" is 'All lightgroups', every
\* grading node is enabled and every solo button is labelled 'Solo' and
\* runs solo_lightgroup.
C5_ResetSolos ==
    op = "update_light_group_mixer" =>
        /\ Showing = ALL_LIGHTGROUPS
        /\ \A i \in DOMAIN nodes : ~nodes[i].disable
        /\ \A k \in SoloButtons :
              /\ knobs[k].label = "Solo"
              /\ knobs[k].command.fn = "solo_lightgroup"

\* C6: solo_lightgroup(X) then unsolo_lightgroup(X), from 'All lightgroups'
\* or from a selection of other lightgroups, leaves "Showing", the solo
\* buttons and the disable flag of every grading node as they were;
\* unsolo_lightgroup takes one X out of the selection.
C6_RoundTrip ==
    \A k \in SoloButtons :
        LET X == knobs[k].command.arg
            soloed == solo_lightgroup(Mixer, X)
            back == unsolo_lightgroup(soloed, X)
            before == IF Showing = ALL_LIGHTGROUPS THEN <<>> ELSE SplitWs(Showing)
        IN  (/\ knobs[k].command.fn = "solo_lightgroup"
             /\ Showing # NOTHING
             /\ X \notin Range(before))
            => /\ soloed.err = "" /\ back.err = ""
               /\ SplitWs(soloed.showing) = Append(before, X)
               /\ back.showing = Showing
               /\ back.knobs = knobs
               /\ \A i \in DOMAIN nodes : back.nodes[i].disable = nodes[i].disable

\* C7: an update that removes no grading node puts the new ones, each
\* connected to the one created before it, on top of the chain that fed
\* Output1 (or on Input1), and connects Output1 to the last; the grading
\* nodes then form one chain from Output1 to Input1 that meets each of
\* them once.  With nothing to build Output1 keeps a LightGroupGrade input
\* and is otherwise connected to Input1.
C7_LinearChain ==
    [][(/\ op' = "update_light_group_mixer"
        /\ ChainOrFresh(nodes, Output1)
        /\ DOMAIN nodes \subseteq DOMAIN nodes') =>
          LET old == Chain(nodes, Output1)
              new == Chain(nodes', Output1')
              built == DOMAIN nodes' \ DOMAIN nodes
          IN  /\ LinearChain(nodes', Output1')
              /\ Len(new) = Len(old) + Cardinality(built)
              /\ SubSeq(new, Cardinality(built) + 1, Len(new)) = old
              /\ Range(SubSeq(new, 1, Cardinality(built))) = built
              /\ built = {} =>
                    Output1' = IF Class(nodes, Output1) = LIGHTGROUP_GRADE_GIZMO_NAME
                               THEN Output1 ELSE Input1
      ]_vars

\* C7, the case: two updates have each added to the chain, which now holds
\* three grading nodes between Output1 and Input1.
C7_Witness ==
    /\ op = "update_light_group_mixer"
    /\ Cardinality(DOMAIN nodes) = 3
    /\ LinearChain(nodes, Output1)
    /\ nodes[Output1].input # Input1
    /\ \E i \in DOMAIN nodes : nodes[i].name = LG_aLG_b \o <<"1">>

====
